---- MODULE Spec2Model ----
(***************************************************************************)
(* pyexchange: the OKEX v3 REST client (pyexchange/okex.py) and the domain *)
(* records it shares with the other exchanges (pyexchange/model.py).       *)
(*                                                                         *)
(* Three specifications over one set of variables:                         *)
(*   Spec       the client: a caller invokes methods of one OKEXApi, the   *)
(*              exchange answers (or stays silent) on each HTTP request;   *)
(*   BookSpec   Book.inverse() applied repeatedly to an order book;        *)
(*   OrderSpec  the derived amounts of an Order.                           *)
(* Python strings are TLA+ strings; Wad is the 18-decimal fixed point of   *)
(* pymaker, kept here with WadDigits decimals so that TLC's integers hold  *)
(* the products.  Record constructors list their fields in the order in    *)
(* which TLC keeps them (first appearance of the name in the module), so   *)
(* that TLC's workers never reorder a record they share.                   *)
(***************************************************************************)
EXTENDS Integers, Sequences, FiniteSets, TLC

VARIABLES
    pc,         \* where the caller's thread is: "idle", "time" (blocked in the
                \* server-time GET), "op" (blocked in the operation's request)
    call,       \* the method invocation in progress or last finished
    req,        \* the HTTP request in flight, NoReq when none
    resp,       \* what _result made of the last response of this call
    outcome,    \* how the invocation ended: a return value or an exception
    callSent,   \* HTTP requests sent by this invocation
    nCalls,     \* invocations of the six methods that talk to the exchange
    nValid,     \* ... of which passed the argument assertions
    nTimeOk,    \* ... of which obtained the server timestamp
    nSent,      \* HTTP requests sent, in all
    book0,      \* BookSpec: the book as constructed
    book,       \* BookSpec: the book after nInv applications of inverse()
    nInv,
    order,      \* OrderSpec: an Order
    remaining   \* OrderSpec: its derived amounts once read, NotRead before

clientVars == <<pc, call, req, resp, outcome, callSent, nCalls, nValid, nTimeOk, nSent>>
bookVars == <<book0, book, nInv>>
orderVars == <<order, remaining>>
vars == <<clientVars, bookVars, orderVars>>

----------------------------------------------------------------------------
(* Bounds *)

WadDigits == 2
MaxNum == 3
MaxLevels == 3
MaxInverse == 2
MaxCalls == 2
MaxId == 2

----------------------------------------------------------------------------
(* pymaker.numeric.Wad: an integer count of 10^-WadDigits units; products   *)
(* and quotients are rounded towards zero (ROUND_DOWN).                     *)

WadScale == 10 ^ WadDigits

TruncDiv(a, b) ==
    IF (a >= 0) = (b > 0) THEN (IF a >= 0 THEN a ELSE -a) \div (IF b > 0 THEN b ELSE -b)
    ELSE -((IF a >= 0 THEN a ELSE -a) \div (IF b > 0 THEN b ELSE -b))

Wad_from_number(n) == n * WadScale

Wad_sub(x, y) == x - y

Wad_mul(x, y) == TruncDiv(x * y, WadScale)

Wad_truediv(x, y) == TruncDiv(x * WadScale, y)

RECURSIVE zfill(_, _)
zfill(s, width) == IF Len(s) >= width THEN s ELSE zfill("0" \o s, width)

\* str(Wad): the value's digits, zero-filled, with the point WadDigits from the end
Wad_str(x) ==
    LET digits == zfill(ToString(IF x >= 0 THEN x ELSE -x), WadDigits + 1)
        n == Len(digits)
    IN  (IF x < 0 THEN "-" ELSE "") \o SubSeq(digits, 1, n - WadDigits) \o "."
            \o SubSeq(digits, n - WadDigits + 1, n)

----------------------------------------------------------------------------
(* pyexchange/model.py *)

BookItem(price, amount) == [price |-> price, amount |-> amount]

BookItem_inverse(item) ==
    BookItem(Wad_truediv(Wad_from_number(1), item.price),
             Wad_mul(item.amount, item.price))

Book(bids, asks) == [bids |-> bids, asks |-> asks]

\* Book.inverse with the exchange of the two sides forgotten
Book_inverse_unswapped(self) ==
    Book([i \in 1..Len(self.bids) |-> BookItem_inverse(self.bids[i])],
         [i \in 1..Len(self.asks) |-> BookItem_inverse(self.asks[i])])

Book_inverse(self) ==
    Book([i \in 1..Len(self.asks) |-> BookItem_inverse(self.asks[i])],
         [i \in 1..Len(self.bids) |-> BookItem_inverse(self.bids[i])])

----------------------------------------------------------------------------
(* pyexchange/okex.py: Order *)

Order(order_id, timestamp, pair, is_sell, price, amount, deal_amount) ==
    [price |-> price, amount |-> amount, order_id |-> order_id, timestamp |-> timestamp,
     pair |-> pair, is_sell |-> is_sell, deal_amount |-> deal_amount]

\* remaining_buy_amount with the branches of its conditional exchanged
remaining_buy_amount_swapped(self) ==
    IF self.is_sell THEN Wad_sub(self.amount, self.deal_amount)
    ELSE Wad_mul(Wad_sub(self.amount, self.deal_amount), self.price)

remaining_buy_amount(self) ==
    IF self.is_sell THEN Wad_mul(Wad_sub(self.amount, self.deal_amount), self.price)
    ELSE Wad_sub(self.amount, self.deal_amount)

remaining_sell_amount(self) ==
    IF self.is_sell THEN Wad_sub(self.amount, self.deal_amount)
    ELSE Wad_mul(Wad_sub(self.amount, self.deal_amount), self.price)

----------------------------------------------------------------------------
(* Python values as they appear in arguments and in parsed JSON *)

PyVal(t, s, n) == [n |-> n, s |-> s, t |-> t]
Absent == PyVal("absent", "", 0)
NoneV == PyVal("NoneType", "", 0)
StrV(s) == PyVal("str", s, 0)
IntV(n) == PyVal("int", "", n)
BoolV(b) == PyVal("bool", "", IF b THEN 1 ELSE 0)

isinstance(v, t) == v.t = t \/ (t = "int" /\ v.t = "bool")

\* int(x): an int or bool as is, a str if it spells a decimal number
PyInt(v) ==
    IF v.t \in {"int", "bool"} THEN [n |-> v.n, exc |-> ""]
    ELSE IF v.t = "str"
         THEN IF \E k \in 0..(MaxId + 1) : ToString(k) = v.s
              THEN [n |-> CHOOSE k \in 0..(MaxId + 1) : ToString(k) = v.s, exc |-> ""]
              ELSE [n |-> 0, exc |-> "ValueError"]
         ELSE [n |-> 0, exc |-> "TypeError"]

----------------------------------------------------------------------------
(* HTTP: responses as the requests library presents them *)

Fields(error_code, iso, order_id, result) ==
    [order_id |-> order_id, error_code |-> error_code, iso |-> iso, result |-> result]
NoFields == Fields(Absent, Absent, Absent, Absent)

\* ok: the status is below 400; json: the body parses; shape, fields, items: the
\* parsed body, a dict (its keys are the fields not Absent) or a list of dicts
HttpResponse(ok, json, shape, fields, items) ==
    [ok |-> ok, json |-> json, shape |-> shape, fields |-> fields, items |-> items]
NonJson(ok) == HttpResponse(ok, FALSE, "", NoFields, <<>>)
Dict(ok, fields) == HttpResponse(ok, TRUE, "dict", fields, <<>>)
List(ok, items) == HttpResponse(ok, TRUE, "list", NoFields, items)
NoResponse == HttpResponse(FALSE, FALSE, "", NoFields, <<>>)

\* key in data
Contains(data, key) ==
    data.shape = "dict" /\ data.fields[key] # Absent

\* data[key]
Subscript(data, key) ==
    IF data.shape # "dict" THEN [v |-> Absent, exc |-> "TypeError"]
    ELSE IF data.fields[key] = Absent THEN [v |-> Absent, exc |-> "KeyError"]
    ELSE [v |-> data.fields[key], exc |-> ""]

ExcInvalidHttp == "Exception: OKCoin API invalid HTTP response"
ExcInvalidJson == "Exception: OKCoin API invalid JSON response"
ExcNegative == "Exception: OKCoin API negative response"
ExcNotAvailable == "Exception: get_trades() not available for OKEX"
ExcTimeout == "requests.exceptions.Timeout"

\* _result with the JSON parse tried before the status is looked at
result_json_first(result, check_result) ==
    IF ~result.json THEN [exc |-> ExcInvalidJson, data |-> NoResponse]
    ELSE IF ~result.ok THEN [exc |-> ExcInvalidHttp, data |-> NoResponse]
    ELSE IF check_result /\ Contains(result, "error_code")
         THEN [exc |-> ExcNegative, data |-> NoResponse]
    ELSE [exc |-> "", data |-> result]

\* _result: the parsed body, or the exception raised
_result(result, check_result) ==
    IF ~result.ok THEN [exc |-> ExcInvalidHttp, data |-> NoResponse]
    ELSE IF ~result.json THEN [exc |-> ExcInvalidJson, data |-> NoResponse]
    ELSE IF check_result /\ Contains(result, "error_code")
         THEN [exc |-> ExcNegative, data |-> NoResponse]
    ELSE [exc |-> "", data |-> result]

----------------------------------------------------------------------------
(* Serialisations of a dict of str to str, kept as its sequence of items *)

RECURSIVE Join(_, _)
Join(sep, parts) ==
    IF Len(parts) = 0 THEN ""
    ELSE IF Len(parts) = 1 THEN parts[1]
    ELSE parts[1] \o sep \o Join(sep, Tail(parts))

\* str(params): Python's repr of the dict
dict_str(params) ==
    "{" \o Join(", ", [i \in 1..Len(params) |->
                        "'" \o params[i][1] \o "': '" \o params[i][2] \o "'"]) \o "}"

\* urllib.parse.quote_plus on the characters that occur here
RECURSIVE quote_plus(_)
quote_plus(s) ==
    IF Len(s) = 0 THEN ""
    ELSE (CASE SubSeq(s, 1, 1) = " " -> "+"
            [] SubSeq(s, 1, 1) = "/" -> "%2F"
            [] SubSeq(s, 1, 1) = "'" -> "%27"
            [] SubSeq(s, 1, 1) = "{" -> "%7B"
            [] SubSeq(s, 1, 1) = "}" -> "%7D"
            [] SubSeq(s, 1, 1) = ":" -> "%3A"
            [] SubSeq(s, 1, 1) = "," -> "%2C"
            [] OTHER -> SubSeq(s, 1, 1)) \o quote_plus(SubSeq(s, 2, Len(s)))

\* urllib.parse.urlencode(params)
urlencode(params) ==
    Join("&", [i \in 1..Len(params) |->
                quote_plus(params[i][1]) \o "=" \o quote_plus(params[i][2])])

----------------------------------------------------------------------------
(* OKEXApi: the client as constructed *)

api_server == "https://www.okex.com"
api_key == "api-key"
secret_key == "secret-key"
passphrase == "passphrase"
timeout == "self.timeout"
NoTimeout == "None"

\* base64(HMAC-SHA256(key, message)), kept symbolic: equal digests, equal inputs
hmac_b64(key, message) == [key |-> key, message |-> message]

Headers(sign, timestamp) ==
    [ContentType |-> "application/json", KEY |-> api_key, SIGN |-> sign,
     TIMESTAMP |-> timestamp, PASSPHRASE |-> passphrase]
NoHeaders == Headers(hmac_b64("", ""), "")

Request(verb, url, headers, data, tmo) ==
    [data |-> data, timeout |-> tmo, verb |-> verb, url |-> url, headers |-> headers]
NoReq == Request("", "", NoHeaders, "", NoTimeout)

\* _get_server_timestamp's request: requests.get(url) and nothing else
TimeRequest == Request("GET", api_server \o "/api/general/v3/time", NoHeaders, "", NoTimeout)

\* _okex_header, once the server's timestamp is there
_okex_header(timestamp, method, request_path, body) ==
    Headers(hmac_b64(secret_key, timestamp \o method \o request_path \o body), timestamp)

_http_get(timestamp, resource, params) ==
    LET path == IF params # "" THEN resource \o "?" \o params ELSE resource
    IN  Request("GET", api_server \o path, _okex_header(timestamp, "GET", path, ""), "",
                timeout)

_http_post(timestamp, resource, params) ==
    Request("POST", api_server \o resource,
            _okex_header(timestamp, "POST", resource, dict_str(params)),
            urlencode(params), timeout)

----------------------------------------------------------------------------
(* The caller's invocations *)

Call(method, pair, is_sell, price, amount, order_id, page_number) ==
    [price |-> price, amount |-> amount, order_id |-> order_id, pair |-> pair,
     is_sell |-> is_sell, method |-> method, page_number |-> page_number]
NoCall == Call("", Absent, FALSE, 0, 0, Absent, Absent)

Pairs == {"ETH-USDT", "ETH/DAI"}
PairArgs == {StrV(p) : p \in Pairs} \cup {NoneV}
IdArgs == {IntV(n) : n \in 1..MaxId} \cup {StrV("1")}
PageArgs == {IntV(1), StrV("1")}
WadArgs == {Wad_from_number(1), Wad_from_number(1) + WadScale \div 2}

NetworkMethods ==
    {"ticker", "depth", "get_balances", "get_orders", "place_order", "cancel_order"}

\* the assertions a method opens with (price and amount are Wads here)
ArgsOk(c) ==
    CASE c.method = "get_balances" -> TRUE
      [] c.method = "cancel_order" -> isinstance(c.pair, "str") /\ isinstance(c.order_id, "int")
      [] c.method \in {"get_trades", "get_all_trades"} ->
            isinstance(c.pair, "str") /\ isinstance(c.page_number, "int")
      [] OTHER -> isinstance(c.pair, "str")

\* the request a method makes, given the timestamp to sign it with
OpRequest(c, ts) ==
    CASE c.method = "ticker" ->
            _http_get(ts, "/api/spot/v3/instruments/" \o c.pair.s \o "ticker", "")
      [] c.method = "depth" ->
            _http_get(ts, "/api/spot/v3/instruments/" \o c.pair.s \o "/book", "")
      [] c.method = "get_balances" -> _http_get(ts, "/api/spot/v3/accounts", "")
      [] c.method = "get_orders" ->
            _http_get(ts, "/api/spot/v3/orders_pending", "instrument_id=" \o c.pair.s)
      [] c.method = "place_order" ->
            _http_post(ts, "/api/spot/v3/orders",
                       << <<"instrument_id", c.pair.s>>,
                          <<"side", IF c.is_sell THEN "sell" ELSE "buy">>,
                          <<"type", "limit">>,
                          <<"price", Wad_str(c.price)>>,
                          <<"size", Wad_str(c.amount)>> >>)
      [] c.method = "cancel_order" ->
            _http_post(ts, "/api/spot/v3/cancel_orders/" \o ToString(c.order_id.n),
                       << <<"instrument_id", c.pair.s>> >>)

----------------------------------------------------------------------------
(* How an invocation ends *)

Outcome(kind, exc, n, b, data, orders) ==
    [b |-> b, n |-> n, exc |-> exc, data |-> data, kind |-> kind, orders |-> orders]
Pending == Outcome("pending", "", 0, FALSE, NoResponse, <<>>)
Raise(exc) == Outcome("raise", exc, 0, FALSE, NoResponse, <<>>)
ReturnData(data) == Outcome("return", "", 0, FALSE, data, <<>>)
ReturnInt(n) == Outcome("return", "", n, FALSE, NoResponse, <<>>)
ReturnBool(b) == Outcome("return", "", 0, b, NoResponse, <<>>)
ReturnOrders(orders) == Outcome("return", "", 0, FALSE, NoResponse, orders)

\* an entry of the pending-orders list; type Absent: the entry has no 'type'
OrderItem(type, order_id, create_date, symbol, price, amount, deal_amount) ==
    [price |-> price, amount |-> amount, order_id |-> order_id, deal_amount |-> deal_amount,
     type |-> type, create_date |-> create_date, symbol |-> symbol]

_filter_order(item) == item.type \in {StrV("buy"), StrV("sell")}

_parse_order(item) ==
    Order(item.order_id, item.create_date \div 1000, item.symbol, item.type = StrV("sell"),
          Wad_from_number(item.price), Wad_from_number(item.amount),
          Wad_from_number(item.deal_amount))

RECURSIVE Filter(_)
Filter(items) ==
    IF Len(items) = 0 THEN <<>>
    ELSE IF _filter_order(Head(items)) THEN <<Head(items)>> \o Filter(Tail(items))
    ELSE Filter(Tail(items))

\* get_orders on the data _http_get returned
get_orders_finish(data) ==
    IF data.shape = "dict"
    THEN IF data.fields = NoFields THEN ReturnOrders(<<>>) ELSE Raise("AssertionError")
    ELSE IF \E i \in 1..Len(data.items) : data.items[i].type = Absent
         THEN Raise("KeyError")
    ELSE LET kept == Filter(data.items)
         IN  ReturnOrders([i \in 1..Len(kept) |-> _parse_order(kept[i])])

\* place_order on the data _http_post returned
place_order_finish(data) ==
    LET id == Subscript(data, "order_id")
        order_id == PyInt(id.v)
        flag == Subscript(data, "result")
        bol_result == PyInt(flag.v)
    IN  IF id.exc # "" THEN Raise(id.exc)
        ELSE IF order_id.exc # "" THEN Raise(order_id.exc)
        ELSE IF flag.exc # "" THEN Raise(flag.exc)
        ELSE IF bol_result.exc # "" THEN Raise(bol_result.exc)
        ELSE ReturnInt(order_id.n)

\* cancel_order reporting success whatever id comes back
cancel_order_finish_always(data, order_id) ==
    LET id == Subscript(data, "order_id")
        echoed == PyInt(id.v)
    IN  IF id.exc # "" THEN Raise(id.exc)
        ELSE IF echoed.exc # "" THEN Raise(echoed.exc)
        ELSE ReturnBool(TRUE)

\* cancel_order on the data _http_post returned
cancel_order_finish(data, order_id) ==
    LET id == Subscript(data, "order_id")
        echoed == PyInt(id.v)
    IN  IF id.exc # "" THEN Raise(id.exc)
        ELSE IF echoed.exc # "" THEN Raise(echoed.exc)
        ELSE ReturnBool(echoed.n = order_id.n)

Finish(c, data) ==
    CASE c.method = "get_orders" -> get_orders_finish(data)
      [] c.method = "place_order" -> place_order_finish(data)
      [] c.method = "cancel_order" -> cancel_order_finish(data, c.order_id)
      [] OTHER -> ReturnData(data)

\* get_trades answering with an empty list instead of raising
get_trades_silent(pair, page_number) == ReturnOrders(<<>>)

\* get_trades and get_all_trades: two assertions, then the raise
get_trades_outcome(pair, page_number) ==
    IF ~isinstance(pair, "str") THEN Raise("AssertionError")
    ELSE IF ~isinstance(page_number, "int") THEN Raise("AssertionError")
    ELSE Raise(ExcNotAvailable)

----------------------------------------------------------------------------
(* What the exchange may answer *)

Timestamps == {"2018-11-01T10:00:00.000Z", "2018-11-01T10:00:01.000Z"}
ErrorCodes == {Absent, StrV("30001")}
EchoedIds ==
    {Absent, StrV("abc")} \cup {IntV(n) : n \in 1..MaxId} \cup {StrV(ToString(n)) : n \in 1..MaxId}
Flags == {Absent, BoolV(TRUE), BoolV(FALSE)}
OrderItems ==
    {OrderItem(t, 1, 1500, "ETH-USDT", 2, MaxNum, 1) :
        t \in {Absent, StrV("buy"), StrV("sell"), StrV("market")}}
ItemLists == UNION {[1..k -> OrderItems] : k \in 0..2}

TimeResponses ==
    {NonJson(ok) : ok \in BOOLEAN}
    \cup {Dict(ok, Fields(e, StrV(ts), Absent, Absent)) :
            ok \in BOOLEAN, e \in ErrorCodes, ts \in Timestamps}
    \cup {Dict(ok, Fields(e, Absent, Absent, Absent)) : ok \in BOOLEAN, e \in ErrorCodes}

OpResponses(method) ==
    {NonJson(ok) : ok \in BOOLEAN}
    \cup {Dict(ok, Fields(e, Absent, Absent, Absent)) : ok \in BOOLEAN, e \in ErrorCodes}
    \cup (CASE method \in {"place_order", "cancel_order"} ->
                {Dict(ok, Fields(e, Absent, id, flag)) :
                    ok \in BOOLEAN, e \in ErrorCodes, id \in EchoedIds, flag \in Flags}
            [] method = "get_orders" -> {List(ok, items) : ok \in BOOLEAN, items \in ItemLists}
            [] OTHER -> {List(ok, <<>>) : ok \in BOOLEAN})

----------------------------------------------------------------------------
(* The client's steps *)

Resp(stage, response, check_result, verdict) ==
    [check_result |-> check_result, stage |-> stage, response |-> response,
     verdict |-> verdict]
NoResp == Resp("", NoResponse, FALSE, [exc |-> "", data |-> NoResponse])

\* a failed request sent once more instead of the exception reaching the caller
PropagateRetrying(exc) ==
    /\ pc' = pc
    /\ req' = req
    /\ outcome' = outcome
    /\ callSent' = callSent + 1
    /\ nSent' = nSent + 1
    /\ UNCHANGED <<nTimeOk>>

\* an exception raised while a request is being handled leaves the method
Propagate(exc) ==
    /\ pc' = "idle"
    /\ req' = NoReq
    /\ outcome' = Raise(exc)
    /\ UNCHANGED <<callSent, nSent, nTimeOk>>

\* a method that talks to the exchange: its assertions, then _okex_header's
\* first statement, the GET of the server's time
Start(c) ==
    /\ pc = "idle"
    /\ nCalls < MaxCalls
    /\ call' = c
    /\ resp' = NoResp
    /\ nCalls' = nCalls + 1
    /\ IF ArgsOk(c)
       THEN /\ pc' = "time"
            /\ req' = TimeRequest
            /\ outcome' = Pending
            /\ callSent' = 1
            /\ nSent' = nSent + 1
            /\ nValid' = nValid + 1
       ELSE /\ pc' = "idle"
            /\ req' = NoReq
            /\ outcome' = Raise("AssertionError")
            /\ callSent' = 0
            /\ UNCHANGED <<nSent, nValid>>
    /\ UNCHANGED <<nTimeOk, bookVars, orderVars>>

ticker == \E pair \in PairArgs : Start(Call("ticker", pair, FALSE, 0, 0, Absent, Absent))

depth == \E pair \in PairArgs : Start(Call("depth", pair, FALSE, 0, 0, Absent, Absent))

get_balances == Start(Call("get_balances", Absent, FALSE, 0, 0, Absent, Absent))

get_orders == \E pair \in PairArgs : Start(Call("get_orders", pair, FALSE, 0, 0, Absent, Absent))

place_order ==
    \E pair \in PairArgs, is_sell \in BOOLEAN, price \in WadArgs, amount \in WadArgs :
        Start(Call("place_order", pair, is_sell, price, amount, Absent, Absent))

cancel_order ==
    \E pair \in PairArgs, order_id \in IdArgs :
        Start(Call("cancel_order", pair, FALSE, 0, 0, order_id, Absent))

Unsupported(method) ==
    /\ pc = "idle"
    /\ \E pair \in PairArgs, page_number \in PageArgs :
        /\ call' = Call(method, pair, FALSE, 0, 0, Absent, page_number)
        /\ outcome' = get_trades_outcome(pair, page_number)
    /\ resp' = NoResp
    /\ callSent' = 0
    /\ UNCHANGED <<pc, req, nCalls, nValid, nTimeOk, nSent, bookVars, orderVars>>

get_trades == Unsupported("get_trades")

get_all_trades == Unsupported("get_all_trades")

\* the time endpoint answers: _get_server_timestamp goes on, and with a
\* timestamp _okex_header signs and the method's own request is sent
TimeReply ==
    /\ pc = "time"
    /\ \E r \in TimeResponses :
        LET v == _result(r, FALSE)
            iso == Subscript(v.data, "iso")
        IN  /\ resp' = Resp("time", r, FALSE, v)
            /\ IF v.exc # "" THEN Propagate(v.exc)
               ELSE IF iso.exc # "" THEN Propagate(iso.exc)
               ELSE /\ pc' = "op"
                    /\ req' = OpRequest(call, iso.v.s)
                    /\ outcome' = Pending
                    /\ callSent' = callSent + 1
                    /\ nSent' = nSent + 1
                    /\ nTimeOk' = nTimeOk + 1
    /\ UNCHANGED <<call, nCalls, nValid, bookVars, orderVars>>

\* the method's endpoint answers
OpReply ==
    /\ pc = "op"
    /\ \E r \in OpResponses(call.method) :
        LET v == _result(r, TRUE)
        IN  /\ resp' = Resp("op", r, TRUE, v)
            /\ IF v.exc # "" THEN Propagate(v.exc)
               ELSE /\ pc' = "idle"
                    /\ req' = NoReq
                    /\ outcome' = Finish(call, v.data)
                    /\ UNCHANGED <<callSent, nSent, nTimeOk>>
    /\ UNCHANGED <<call, nCalls, nValid, bookVars, orderVars>>

\* the request in flight was sent with a timeout, and it expires unanswered
RequestTimeout ==
    /\ pc \in {"time", "op"}
    /\ req.timeout # NoTimeout
    /\ Propagate(ExcTimeout)
    /\ UNCHANGED <<call, resp, nCalls, nValid, bookVars, orderVars>>

ClientIdle ==
    /\ pc = "idle"
    /\ call = NoCall
    /\ req = NoReq
    /\ resp = NoResp
    /\ outcome = Outcome("none", "", 0, FALSE, NoResponse, <<>>)
    /\ callSent = 0
    /\ nCalls = 0
    /\ nValid = 0
    /\ nTimeOk = 0
    /\ nSent = 0

NotRead == [read |-> FALSE, buy |-> 0, sell |-> 0]
NoOrder == Order(0, 0, "", FALSE, 0, 0, 0)

Init ==
    /\ ClientIdle
    /\ book0 = Book(<<>>, <<>>)
    /\ book = book0
    /\ nInv = 0
    /\ order = NoOrder
    /\ remaining = NotRead

Next ==
    \/ ticker
    \/ depth
    \/ get_balances
    \/ get_orders
    \/ place_order
    \/ cancel_order
    \/ get_trades
    \/ get_all_trades
    \/ TimeReply
    \/ OpReply
    \/ RequestTimeout

Spec == Init /\ [][Next]_vars

----------------------------------------------------------------------------
(* BookSpec: a book is constructed and inverse() applied to the result *)

BookPrices == {Wad_from_number(n) : n \in 1..MaxNum} \cup {WadScale \div 2}
BookAmounts == {Wad_from_number(2), 1}
Levels == {BookItem(p, a) : p \in BookPrices, a \in BookAmounts}

\* a book of at most MaxLevels levels in all, bids first
BookInit ==
    /\ ClientIdle
    /\ \E k \in 0..MaxLevels : \E all \in [1..k -> Levels] : \E j \in 0..k :
        book0 = Book(SubSeq(all, 1, j), SubSeq(all, j + 1, k))
    /\ book = book0
    /\ nInv = 0
    /\ order = NoOrder
    /\ remaining = NotRead

Inverse ==
    /\ nInv < MaxInverse
    /\ book' = Book_inverse(book)
    /\ nInv' = nInv + 1
    /\ UNCHANGED <<book0, clientVars, orderVars>>

BookNext == Inverse

BookSpec == BookInit /\ [][BookNext]_vars

----------------------------------------------------------------------------
(* OrderSpec: an Order is constructed and its derived amounts are read *)

OrderPrices == {Wad_from_number(n) : n \in 1..MaxNum} \cup {Wad_from_number(1) + WadScale \div 2}
OrderAmounts == {Wad_from_number(10), Wad_from_number(MaxNum), WadScale \div 2, 1}
DealAmounts == {0, 1, Wad_from_number(3)}

OrderInit ==
    /\ ClientIdle
    /\ book0 = Book(<<>>, <<>>)
    /\ book = book0
    /\ nInv = 0
    /\ \E is_sell \in BOOLEAN, price \in OrderPrices, amount \in OrderAmounts,
            deal_amount \in DealAmounts :
        order = Order(1, 1, "ETH-USDT", is_sell, price, amount, deal_amount)
    /\ remaining = NotRead

ReadRemaining ==
    /\ ~remaining.read
    /\ remaining' = [read |-> TRUE, buy |-> remaining_buy_amount(order),
                     sell |-> remaining_sell_amount(order)]
    /\ UNCHANGED <<order, clientVars, bookVars>>

OrderNext == ReadRemaining

OrderSpec == OrderInit /\ [][OrderNext]_vars

----------------------------------------------------------------------------
(* Properties.  Helper vocabulary first. *)

Trades == {"get_trades", "get_all_trades"}

\* the spec's error kinds, by the exception raised
TransportErrors == {ExcInvalidHttp, ExcTimeout}
ProtocolErrors == {ExcInvalidJson, ExcNegative}
\* what a malformed body makes the parsing code raise
ParseErrors == {"KeyError", "ValueError", "TypeError"}

\* the order id a response body carries, when it carries an integer one
HasIntegerId(fields) ==
    \/ fields.order_id.t = "int"
    \/ fields.order_id.t = "str" /\ \E n \in 0..(MaxId + 1) : ToString(n) = fields.order_id.s
IntegerId(fields) ==
    IF fields.order_id.t = "int" THEN fields.order_id.n
    ELSE CHOOSE n \in 0..(MaxId + 1) : ToString(n) = fields.order_id.s

\* the path (with its query string) a request asks for
RequestedPath(r) == SubSeq(r.url, Len(api_server) + 1, Len(r.url))

\* the invocation has ended on the answer of its own endpoint
AnsweredBy(method) ==
    pc = "idle" /\ call.method = method /\ resp.stage = "op"

\* C1 (as claimed): the signature of every request the client sends for an
\* operation is computed over timestamp + METHOD + requested path + the body
\* actually sent: the urlencoded payload of a POST, the empty string of a GET.
C1_SignedBodyIsSentBody ==
    pc = "op" =>
        req.headers.SIGN =
            hmac_b64(secret_key,
                     req.headers.TIMESTAMP \o req.verb \o RequestedPath(req) \o req.data)

\* C1, the half about GET alone, which the code satisfies
C1_GetSignsPathAndEmptyBody ==
    (pc = "op" /\ req.verb = "GET") =>
        /\ req.data = ""
        /\ req.headers.SIGN =
            hmac_b64(secret_key, req.headers.TIMESTAMP \o "GET" \o RequestedPath(req))

\* C2 (as claimed): once an invocation has returned, the HTTP requests sent
\* so far are as many as the invocations of the methods that talk to the
\* exchange (those turned away by an argument assertion left aside).
C2_OneRequestPerInvocation ==
    pc = "idle" => nSent = nValid

\* C2 (amended): an invocation whose arguments pass the assertions sends the
\* server-time request and, only when that yields a timestamp, one request
\* to its own endpoint; it holds one request in flight while it waits and
\* none when it has returned; nothing is sent again after a failure.  In
\* all: requests sent = such invocations + timestamps obtained.
C2_TimeRequestThenOneRequest ==
    /\ nSent = nValid + nTimeOk
    /\ nTimeOk <= nValid /\ nValid <= nCalls
    /\ callSent \in 0..2
    /\ pc = "idle" => req = NoReq
    /\ pc = "time" => req = TimeRequest /\ callSent = 1
    /\ pc = "op" => req # NoReq /\ req # TimeRequest /\ callSent = 2
    /\ (pc = "idle" /\ call.method \in NetworkMethods) =>
        /\ callSent = 0 <=> ~ArgsOk(call)
        /\ callSent = 2 <=>
            \/ resp.stage = "op"
            \/ resp.stage = "time" /\ resp.verdict.exc = "" /\ Contains(resp.response, "iso")

C2_Witness ==
    /\ pc = "idle" /\ call.method = "ticker"
    /\ outcome.kind = "return"
    /\ callSent = 2 /\ nCalls = 1 /\ nSent = 2

\* C3 (as claimed): on a successful-HTTP JSON answer, place_order returns
\* the integer order id of the body and nothing else; it raises when the
\* body has no integer order id; it returns the id whenever the body has
\* one and no error code.
C3_PlaceOrderReturnsEchoedId ==
    (AnsweredBy("place_order") /\ resp.response.ok /\ resp.response.json) =>
        LET fields == resp.response.fields
        IN  /\ outcome.kind = "return" =>
                HasIntegerId(fields) /\ outcome = ReturnInt(IntegerId(fields))
            /\ ~HasIntegerId(fields) =>
                outcome.kind = "raise" /\ outcome.exc \in ProtocolErrors \cup ParseErrors
            /\ (HasIntegerId(fields) /\ fields.error_code = Absent) =>
                outcome = ReturnInt(IntegerId(fields))

\* C4 (as claimed): place_order and cancel_order end with a usable result or
\* an exception, and place_order returns no order id when the body's result
\* flag says the placement did not succeed.  (That place_order does not
\* raise once it holds the echoed id is C3's last conjunct.)
C4_NoPartialSuccess ==
    /\ (pc = "idle" /\ call.method \in {"place_order", "cancel_order"}) =>
        outcome.kind \in {"return", "raise"}
    /\ (AnsweredBy("place_order") /\ outcome.kind = "return") =>
        resp.response.fields.result # BoolV(FALSE)

\* C5: on an accepted answer cancel_order returns true exactly when the body
\* echoes the requested order id, and false, without raising, when it
\* echoes another one; it returns true in no other way.
C5_CancelTrueIffEchoed ==
    /\ (AnsweredBy("cancel_order") /\ resp.verdict.exc = "") =>
        LET fields == resp.response.fields
        IN  /\ outcome = ReturnBool(TRUE) <=>
                HasIntegerId(fields) /\ IntegerId(fields) = call.order_id.n
            /\ (HasIntegerId(fields) /\ IntegerId(fields) # call.order_id.n) =>
                outcome = ReturnBool(FALSE)
    /\ (pc = "idle" /\ call.method = "cancel_order" /\ outcome.kind = "return") =>
        AnsweredBy("cancel_order") /\ resp.verdict.exc = ""

C5_Witness ==
    /\ AnsweredBy("cancel_order") /\ resp.verdict.exc = ""
    /\ call.order_id = IntV(1)
    /\ resp.response.fields.order_id = StrV("2")
    /\ outcome = ReturnBool(FALSE)

\* C6 (as claimed): get_trades and get_all_trades raise the "not available"
\* exception whatever their arguments, and send nothing.
C6_AlwaysNotAvailable ==
    call.method \in Trades => outcome = Raise(ExcNotAvailable) /\ callSent = 0

\* C6 (amended): get_trades and get_all_trades always raise and never send
\* a request; the exception is the "not available" one whenever pair is a
\* str and page_number an int, and the assertion's otherwise.
C6_RaisesWithoutRequest ==
    /\ [](call.method \in Trades =>
            /\ pc = "idle" /\ req = NoReq /\ callSent = 0
            /\ outcome.kind = "raise"
            /\ outcome.exc =
                IF call.pair.t = "str" /\ call.page_number.t \in {"int", "bool"}
                THEN ExcNotAvailable ELSE "AssertionError")
    /\ [][call'.method \in Trades => nSent' = nSent /\ req' = NoReq]_vars

C6_Witness ==
    /\ call.method = "get_all_trades"
    /\ call.pair = StrV("ETH/DAI") /\ call.page_number = IntV(1)
    /\ outcome = Raise(ExcNotAvailable)
    /\ nSent = 2

\* C7: a response is accepted, and its parsed body handed on, exactly when
\* its status is a success, its body is JSON and, result checking being
\* asked for, the body has no error_code; a failed status raises the
\* transport error whatever the body, a body that is not JSON the protocol
\* error, an error_code under checking the protocol error; the server-time
\* response is handled the same way, without result checking, every other
\* one with it; a rejected response ends the invocation with that error.
C7_ResponseValidation ==
    resp.stage # "" =>
        LET r == resp.response
            v == resp.verdict
            flagged == r.json /\ r.shape = "dict" /\ r.fields.error_code # Absent
        IN  /\ resp.check_result <=> resp.stage = "op"
            /\ v.exc = "" <=> r.ok /\ r.json /\ (resp.check_result => ~flagged)
            /\ v.exc = "" => v.data = r
            /\ ~r.ok => v.exc = ExcInvalidHttp /\ v.exc \in TransportErrors
            /\ (r.ok /\ ~r.json) => v.exc = ExcInvalidJson /\ v.exc \in ProtocolErrors
            /\ (r.ok /\ r.json /\ resp.check_result /\ flagged) =>
                v.exc = ExcNegative /\ v.exc \in ProtocolErrors
            /\ v.exc # "" => pc = "idle" /\ outcome = Raise(v.exc)

C7_Witness ==
    /\ resp.stage = "op"
    /\ ~resp.response.ok /\ resp.response.json
    /\ resp.response.fields.error_code # Absent
    /\ outcome = Raise(ExcInvalidHttp)

\* C8 (as claimed): every request an invocation waits on was sent with the
\* configured timeout, so that the wait can end by it.
C8_EveryRequestTimesOut ==
    pc \in {"time", "op"} => req.timeout = timeout /\ ENABLED RequestTimeout

\* r is the Wad product of x and y: x*y/WadScale, cut towards zero
IsWadProduct(r, x, y) ==
    IF x * y >= 0
    THEN r >= 0 /\ r * WadScale <= x * y /\ x * y < (r + 1) * WadScale
    ELSE r <= 0 /\ r * WadScale >= x * y /\ x * y > (r - 1) * WadScale

\* q is the Wad quotient of x by y, for x >= 0 and y > 0
IsWadQuotient(q, x, y) ==
    q >= 0 /\ q * y <= x * WadScale /\ x * WadScale < (q + 1) * y

\* inv is the level 1/price, amount*price of level
InverseOf(inv, level) ==
    /\ IsWadQuotient(inv.price, WadScale, level.price)
    /\ IsWadProduct(inv.amount, level.amount, level.price)

InversesOf(invs, levels) ==
    /\ Len(invs) = Len(levels)
    /\ \A i \in 1..Len(levels) : InverseOf(invs[i], levels[i])

\* neither 1/price nor amount*price is rounded
Exact(level) ==
    /\ (WadScale * WadScale) % level.price = 0
    /\ (level.amount * level.price) % WadScale = 0

\* C9 (as claimed): inverse() gives the inverted asks as bids and the
\* inverted bids as asks, in order, and inverse().inverse() gives back the
\* original bids and asks, prices and amounts included.
C9_InverseTwiceIsOriginal ==
    /\ nInv = 1 => InversesOf(book.bids, book0.asks) /\ InversesOf(book.asks, book0.bids)
    /\ nInv = 2 => book = book0

\* C9 (amended): inverse() gives the inverted asks as bids and the inverted
\* bids as asks, in order; inverse().inverse() gives each side back in its
\* own place, with its length and order, every level inverted twice; a
\* level comes back with its original price and amount when neither
\* 1/price nor amount*price is rounded.
C9_InverseTwiceUpToRounding ==
    /\ nInv = 1 => InversesOf(book.bids, book0.asks) /\ InversesOf(book.asks, book0.bids)
    /\ nInv = 2 =>
        /\ Len(book.bids) = Len(book0.bids) /\ Len(book.asks) = Len(book0.asks)
        /\ \A i \in 1..Len(book0.bids) :
            /\ book.bids[i] = BookItem_inverse(BookItem_inverse(book0.bids[i]))
            /\ Exact(book0.bids[i]) => book.bids[i] = book0.bids[i]
        /\ \A i \in 1..Len(book0.asks) :
            /\ book.asks[i] = BookItem_inverse(BookItem_inverse(book0.asks[i]))
            /\ Exact(book0.asks[i]) => book.asks[i] = book0.asks[i]

C9_Witness ==
    /\ nInv = 2
    /\ Len(book0.bids) = 2 /\ Len(book0.asks) = 1
    /\ book0.bids[1] # book0.bids[2] /\ book0.asks[1] # book0.bids[1]
    /\ book = book0

\* C10: remaining_buy_amount is (amount - deal_amount) * price of a sell
\* order and amount - deal_amount of a buy order, remaining_sell_amount the
\* other way round; amount 10, deal_amount 3, price 2 give 7 to sell and 14
\* to buy for a sell order, 7 to buy and 14 to sell for a buy order.
C10_RemainingAmounts ==
    remaining.read =>
        LET left == order.amount - order.deal_amount
        IN  /\ IF order.is_sell
               THEN /\ IsWadProduct(remaining.buy, left, order.price)
                    /\ remaining.sell = left
               ELSE /\ remaining.buy = left
                    /\ IsWadProduct(remaining.sell, left, order.price)
            /\ (/\ order.amount = Wad_from_number(10)
                /\ order.deal_amount = Wad_from_number(3)
                /\ order.price = Wad_from_number(2)) =>
                    IF order.is_sell
                    THEN /\ remaining.sell = Wad_from_number(7)
                         /\ remaining.buy = Wad_from_number(14)
                    ELSE /\ remaining.buy = Wad_from_number(7)
                         /\ remaining.sell = Wad_from_number(14)

C10_Witness ==
    /\ remaining.read
    /\ order.is_sell
    /\ order.amount = Wad_from_number(10)
    /\ order.deal_amount = Wad_from_number(3)
    /\ order.price = Wad_from_number(2)
    /\ remaining.sell = Wad_from_number(7)
    /\ remaining.buy = Wad_from_number(14)

====
